---- MODULE Spec2Model ----
(***************************************************************************)
(* Model of the two control programs of the repository:                    *)
(*   - FutbolSumo.ino      : single-character command driver of two        *)
(*                           H-bridge motors with a blocking PWM ramp;     *)
(*   - Telem_Seguidor.ino  : PD line follower with a serial command line.  *)
(* Characters are their ASCII codes, pins are booleans (HIGH = TRUE).      *)
(***************************************************************************)
EXTENDS Integers, Sequences, FiniteSets, TLC

(***************************************************************************)
(* FutbolSumo.ino : constants                                              *)
(***************************************************************************)
MAX_PWM == 255
RAMP_STEP == 4
HIGH == TRUE
LOW == FALSE

\* Largest character code the command channel delivers in the model.
MaxChar == 127
\* Largest number of characters waiting in the Bluetooth receive buffer.
MaxPending == 2

\* ASCII codes of the characters the sketch names.
Ord ==
  [ zero |-> 48, nine |-> 57, a |-> 97, z |-> 122,
    Q |-> 81, F |-> 70, B |-> 66, S |-> 83, L |-> 76, R |-> 82,
    G |-> 71, I |-> 73, H |-> 72, J |-> 74 ]

Chars == 0..MaxChar

\* Characters the environment sends in the specification with a receive buffer.
QChars == {Ord.S, Ord.F, Ord.B, Ord.L, Ord.G, Ord.zero + 4}

VARIABLES
  \* ---- FutbolSumo.ino ----
  speedLevel,    \* int speedLevel
  currentPWMA,   \* int currentPWMA
  currentPWMB,   \* int currentPWMB
  currentDir,    \* char currentDir
  dutyA,         \* duty last written with ledcWrite(PWMA, .)
  dutyB,         \* duty last written with ledcWrite(PWMB, .)
  pinAIN1, pinAIN2, pinBIN1, pinBIN2,   \* levels last written to the pins
  raw,           \* the character SerialBT.read() returned
  value,         \* loop()'s value after normalisation (commandMove's newDir)
  pc,            \* position of the single thread of control
  ret,           \* where the running Stop() returns to
  rx,            \* characters waiting in the receive buffer
  \* ---- Telem_Seguidor.ino ----
  KP, KD,             \* float gains, as exact fractions [n, d]
  MAX_SPEED,          \* int MAX_SPEED
  TELEM_INTERVAL_MS,  \* unsigned long TELEM_INTERVAL_MS
  running,            \* bool running
  lastError,          \* int lastError
  lastPosition,       \* int lastPosition
  lastM1, lastM2,     \* int lastM1, lastM2
  cmdBuffer,          \* String cmdBuffer
  speedDiff,          \* loop()'s speedDiff of the latest control cycle
  motorM1, motorM2,   \* speeds last given to motors.setSpeeds
  led13,              \* level last written to pin 13
  tx,                 \* messages the latest step printed on Serial
  lfpc                \* position in loop(): "serial", "control", "telem"

sumoVars ==
  << speedLevel, currentPWMA, currentPWMB, currentDir, dutyA, dutyB,
     pinAIN1, pinAIN2, pinBIN1, pinBIN2, raw, value, pc, ret, rx >>

lfVars ==
  << KP, KD, MAX_SPEED, TELEM_INTERVAL_MS, running, lastError, lastPosition,
     lastM1, lastM2, cmdBuffer, speedDiff, motorM1, motorM2, led13, tx, lfpc >>

vars == << sumoVars, lfVars >>

(***************************************************************************)
(* Arduino helpers as the sketch uses them                                 *)
(***************************************************************************)
min(a, b) == IF a < b THEN a ELSE b

max(a, b) == IF a > b THEN a ELSE b

constrainNoLow(x, lo, hi) == IF x > hi THEN hi ELSE x

constrain(x, lo, hi) == IF x < lo THEN lo ELSE IF x > hi THEN hi ELSE x

mapWrongRun(x, in_min, in_max, out_min, out_max) ==
  ((x - in_min) * (out_max - out_min)) \div 10 + out_min

\* long map(x, in_min, in_max, out_min, out_max); operands are >= 0 here.
map(x, in_min, in_max, out_min, out_max) ==
  ((x - in_min) * (out_max - out_min)) \div (in_max - in_min) + out_min

toUpperNone(c) == c

\* if (value >= 'a' && value <= 'z') value = value - 32;
toUpper(c) == IF c >= Ord.a /\ c <= Ord.z THEN c - 32 ELSE c

isDigit(c) == c >= Ord.zero /\ c <= Ord.nine

\* The labels of the switch in loop().
DirLetters ==
  {Ord.F, Ord.B, Ord.S, Ord.L, Ord.R, Ord.G, Ord.I, Ord.H, Ord.J}

isForwardSense(d) == d = Ord.F \/ d = Ord.G \/ d = Ord.I

isBackwardSense(d) == d = Ord.B \/ d = Ord.H \/ d = Ord.J

isOppositeSenseStraightOnly(oldDir, newDir) ==
  (oldDir = Ord.F /\ newDir = Ord.B) \/ (oldDir = Ord.B /\ newDir = Ord.F)

isOppositeSense(oldDir, newDir) ==
  IF oldDir = Ord.S \/ newDir = Ord.S
    THEN FALSE
    ELSE \/ (isForwardSense(oldDir) /\ isBackwardSense(newDir))
         \/ (isBackwardSense(oldDir) /\ isForwardSense(newDir))

(***************************************************************************)
(* The movement functions: the call each one makes.                        *)
(***************************************************************************)
Call(fn, ta, tb, a1, a2, b1, b2) ==
  [ fn |-> fn, targetA |-> ta, targetB |-> tb,
    ain1 |-> a1, ain2 |-> a2, bin1 |-> b1, bin2 |-> b2 ]

Forward(s) == Call("setMotors", s, s, HIGH, LOW, HIGH, LOW)

Backward(s) == Call("setMotors", s, s, LOW, HIGH, LOW, HIGH)

LeftFullScale(s) == Call("setMotors", s, s, HIGH, LOW, LOW, HIGH)

Left(s) ==
  LET turn == (s * 85) \div 100
  IN  Call("setMotors", turn, turn, HIGH, LOW, LOW, HIGH)

Right(s) ==
  LET turn == (s * 85) \div 100
  IN  Call("setMotors", turn, turn, LOW, HIGH, HIGH, LOW)

ForwardLeft(s) ==
  LET slow == s \div 2
  IN  Call("setMotors", slow, s, HIGH, LOW, HIGH, LOW)

ForwardRight(s) ==
  LET slow == s \div 2
  IN  Call("setMotors", s, slow, HIGH, LOW, HIGH, LOW)

BackLeft(s) ==
  LET slow == s \div 2
  IN  Call("setMotors", slow, s, LOW, HIGH, LOW, HIGH)

BackRight(s) ==
  LET slow == s \div 2
  IN  Call("setMotors", s, slow, LOW, HIGH, LOW, HIGH)

\* Stop() takes no arguments and does not go through setMotors.
StopCall == Call("Stop", 0, 0, LOW, LOW, LOW, LOW)

applyCurrentDirRampedStop(d, s) ==
  CASE d = Ord.F -> Forward(s)
    [] d = Ord.B -> Backward(s)
    [] d = Ord.L -> Left(s)
    [] d = Ord.R -> Right(s)
    [] d = Ord.G -> ForwardLeft(s)
    [] d = Ord.I -> ForwardRight(s)
    [] d = Ord.H -> BackLeft(s)
    [] d = Ord.J -> BackRight(s)
    [] OTHER     -> Call("setMotors", 0, 0, LOW, LOW, LOW, LOW)

\* applyCurrentDir(): the function called for direction d at speed scale s.
applyCurrentDir(d, s) ==
  CASE d = Ord.F -> Forward(s)
    [] d = Ord.B -> Backward(s)
    [] d = Ord.L -> Left(s)
    [] d = Ord.R -> Right(s)
    [] d = Ord.G -> ForwardLeft(s)
    [] d = Ord.I -> ForwardRight(s)
    [] d = Ord.H -> BackLeft(s)
    [] d = Ord.J -> BackRight(s)
    [] OTHER     -> StopCall

\* The arguments of the setMotors call in progress.  currentDir and
\* speedLevel do not change while setMotors runs, so its parameters are
\* read back from them.
args == applyCurrentDir(currentDir, speedLevel)

\* targetA = constrain(targetA, 0, MAX_PWM);
targetA == constrain(args.targetA, 0, MAX_PWM)

\* targetB = constrain(targetB, 0, MAX_PWM);
targetB == constrain(args.targetB, 0, MAX_PWM)

rampNoClampUp(cur, target) ==
  IF cur < target THEN cur + RAMP_STEP
  ELSE IF cur > target THEN max(cur - RAMP_STEP, target)
  ELSE cur

rampNoClamp(cur, target) ==
  IF cur < target THEN cur + RAMP_STEP
  ELSE IF cur > target THEN cur - RAMP_STEP
  ELSE cur

rampNoClampDown(cur, target) ==
  IF cur < target THEN min(cur + RAMP_STEP, target)
  ELSE IF cur > target THEN cur - RAMP_STEP
  ELSE cur

\* One motor's update in an iteration of the while loop of setMotors.
ramp(cur, target) ==
  IF cur < target THEN min(cur + RAMP_STEP, target)
  ELSE IF cur > target THEN max(cur - RAMP_STEP, target)
  ELSE cur

\* First position of the function applyCurrentDir() calls for d at scale s.
entry(d, s) ==
  IF applyCurrentDir(d, s).fn = "Stop" THEN "Stop" ELSE "setAIN1"

(***************************************************************************)
(* State after setup(): globals at their initialisers, then Stop().        *)
(***************************************************************************)
SumoInit ==
  /\ speedLevel = MAX_PWM
  /\ currentPWMA = 0
  /\ currentPWMB = 0
  /\ currentDir = Ord.S
  /\ dutyA = 0
  /\ dutyB = 0
  /\ pinAIN1 = LOW
  /\ pinAIN2 = LOW
  /\ pinBIN1 = LOW
  /\ pinBIN2 = LOW
  /\ raw = 0
  /\ value = 0
  /\ pc = "loop"
  /\ ret = "loop"
  /\ rx = << >>

(***************************************************************************)
(* Telem_Seguidor.ino : arithmetic of the target (16-bit int, 32-bit long, *)
(* 32-bit float).  A float is modelled by the exact fraction [n, d] it     *)
(* holds; the command lines of the model use values a float holds exactly. *)
(***************************************************************************)
INT_MAX == 2^15 - 1

INT_MIN == -(2^15)

\* Division of C: the quotient is truncated toward zero (b > 0).
TruncDiv(a, b) == IF a >= 0 THEN a \div b ELSE -((-a) \div b)

\* Conversion of a long to int: the low 16 bits.
wrap16(x) == ((x + 2^15) % 2^16) - 2^15

\* The results an int computation of mathematical value x can have: x when
\* it fits; otherwise the behaviour is undefined (signed overflow, float
\* conversion out of range) and the build wraps or saturates.
intResults(x) ==
  IF x >= INT_MIN /\ x <= INT_MAX THEN {x}
  ELSE {wrap16(x), INT_MIN, INT_MAX}

\* (int)(g * x) for a float g and an int x.
floatTimesToInt(g, x) == intResults(TruncDiv(g.n * x, g.d))

(***************************************************************************)
(* Arduino String as the sketch uses it                                    *)
(***************************************************************************)
charAt(s, i) == SubSeq(s, i, i)

DigitChars == "0123456789"

isDigitCh(ch) == \E i \in 1..10 : charAt(DigitChars, i) = ch

digitVal(ch) == (CHOOSE i \in 1..10 : charAt(DigitChars, i) = ch) - 1

isSpaceCh(ch) == ch \in {" ", "\t", "\n", "\r", "\f"}

RECURSIVE trimLeft(_)
trimLeft(s) ==
  IF Len(s) > 0 /\ isSpaceCh(charAt(s, 1))
    THEN trimLeft(SubSeq(s, 2, Len(s)))
    ELSE s

RECURSIVE trimRight(_)
trimRight(s) ==
  IF Len(s) > 0 /\ isSpaceCh(charAt(s, Len(s)))
    THEN trimRight(SubSeq(s, 1, Len(s) - 1))
    ELSE s

\* String::trim()
trim(s) == trimRight(trimLeft(s))

\* String::startsWith(p)
startsWith(s, p) == Len(s) >= Len(p) /\ SubSeq(s, 1, Len(p)) = p

\* String::substring(left, right), indices from 0, right exclusive
substring2(s, left, right) ==
  IF left >= right \/ left >= Len(s) THEN ""
  ELSE SubSeq(s, left + 1, min(right, Len(s)))

\* String::substring(left)
substring(s, left) == substring2(s, left, Len(s))

\* String::indexOf(ch), from 0; -1 when ch does not occur
indexOf(s, ch) ==
  IF \E i \in 1..Len(s) : charAt(s, i) = ch
    THEN (CHOOSE i \in 1..Len(s) :
            /\ charAt(s, i) = ch
            /\ \A j \in 1..(i - 1) : charAt(s, j) # ch) - 1
    ELSE -1

\* The run of decimal digits of s from position i (from 1): its value and
\* its length.
RECURSIVE scanDigits(_, _, _, _)
scanDigits(s, i, acc, len) ==
  IF i <= Len(s) /\ isDigitCh(charAt(s, i))
    THEN scanDigits(s, i + 1, acc * 10 + digitVal(charAt(s, i)), len + 1)
    ELSE [val |-> acc, len |-> len]

RECURSIVE pow10(_)
pow10(k) == IF k = 0 THEN 1 ELSE 10 * pow10(k - 1)

\* String::toInt() is atol(): white space, an optional sign, digits; 0 when
\* there is no digit.  (The digit runs of the model stay below 2^31.)
toInt(s) ==
  LET t    == trimLeft(s)
      neg  == Len(t) > 0 /\ charAt(t, 1) = "-"
      sgn  == Len(t) > 0 /\ charAt(t, 1) \in {"-", "+"}
      body == scanDigits(t, IF sgn THEN 2 ELSE 1, 0, 0)
  IN  IF neg THEN -body.val ELSE body.val

RECURSIVE gcd(_, _)
gcd(a, b) == IF b = 0 THEN a ELSE gcd(b, a % b)

\* The fraction n/d in lowest terms: one value per number, as for a float.
frac(n, d) ==
  LET g == gcd(IF n < 0 THEN -n ELSE n, d)
  IN  [n |-> n \div g, d |-> d \div g]

\* String::toFloat() is atof(): white space, an optional sign, digits, an
\* optional point and digits; 0 when there is no digit.  (The lines of the
\* model carry no exponent.)
toFloat(s) ==
  LET t     == trimLeft(s)
      neg   == Len(t) > 0 /\ charAt(t, 1) = "-"
      sgn   == Len(t) > 0 /\ charAt(t, 1) \in {"-", "+"}
      start == IF sgn THEN 2 ELSE 1
      ip    == scanDigits(t, start, 0, 0)
      dot   == start + ip.len
      hasFr == dot <= Len(t) /\ charAt(t, dot) = "."
      fp    == IF hasFr THEN scanDigits(t, dot + 1, 0, 0)
               ELSE [val |-> 0, len |-> 0]
      mag   == ip.val * pow10(fp.len) + fp.val
  IN  IF ip.len + fp.len = 0 THEN frac(0, 1)
      ELSE frac(IF neg THEN -mag ELSE mag, pow10(fp.len))

\* Serial.print(x, 4): x rounded half away from zero to 4 decimals, as the
\* number of 1/10000 printed.
print4(x) ==
  LET a == IF x.n < 0 THEN -x.n ELSE x.n
      q == (2 * a * 10000 + x.d) \div (2 * x.d)
  IN  IF x.n < 0 THEN -q ELSE q

(***************************************************************************)
(* Inputs of the line follower in the model                                *)
(***************************************************************************)
\* Command lines the host sends, each followed by a line end.
Lines ==
  { "START", "STOP", "OP", "PID:0.25,6.0", "PID:0.5,0.5", "PID:40,40",
    "SPEED:300" }

\* Characters sent with no line end yet.
\* Command lines that exercise the parsing and the range checks.
CmdLines ==
  { "START", "STOP", "PARAMS", "FOO", "PID:0.3,5.5", "PID:1", "PID:a,b",
    "SPEED:0", "SPEED:400", "SPEED:401", "SPEED:-1", "SPEED:65536",
    "SPEED:abc", "SPEED:", "INTERVAL:10", "INTERVAL:9", "INTERVAL:10000",
    "INTERVAL:10001", "INTERVAL:-5", "INTERVAL:abc" }

Fragments == { "ST" }

\* Longest cmdBuffer the model lets the host build up.
MaxBuf == 2

\* Values reflectanceSensors.readLine() returns in the model, in 0..5000.
Positions == {0, 2000, 2500, 2501, 3000, 5000}

(***************************************************************************)
(* State after setup(): motors stopped, calibration done, READY and the    *)
(* parameters printed.                                                     *)
(***************************************************************************)
paramsMsg(kp, kd, spd, iv) ==
  [ params |-> 1, kp |-> print4(kp), kd |-> print4(kd),
    max_speed |-> spd, interval_ms |-> iv ]

LFInit ==
  /\ KP = frac(25, 100)
  /\ KD = frac(6, 1)
  /\ MAX_SPEED = 400
  /\ TELEM_INTERVAL_MS = 100
  /\ running = FALSE
  /\ lastError = 0
  /\ lastPosition = 0
  /\ lastM1 = 0
  /\ lastM2 = 0
  /\ cmdBuffer = ""
  /\ speedDiff = 0
  /\ motorM1 = 0
  /\ motorM2 = 0
  /\ led13 = LOW
  /\ tx = << [status |-> "CALIBRATING"], [status |-> "CALIBRATION_DONE"],
             [status |-> "READY"],
             paramsMsg(frac(25, 100), frac(6, 1), 400, 100) >>
  /\ lfpc = "serial"

Init == SumoInit /\ LFInit

(***************************************************************************)
(* loop(): one character c read from the channel, up to the first call     *)
(* that writes to the hardware.                                            *)
(* The write to LED_BT that ends loop() and the STBY pin, HIGH since       *)
(* setup(), are read by nothing in the sketch and are not state here.      *)
(***************************************************************************)
Dispatch(c) ==
  LET v == toUpper(c) IN
  /\ pc = "loop"
  /\ raw' = c
  /\ value' = v
  /\ UNCHANGED << currentPWMA, currentPWMB, dutyA, dutyB,
                  pinAIN1, pinAIN2, pinBIN1, pinBIN2 >>
  /\ IF isDigit(v)
       THEN LET pct == (v - Ord.zero) * 10 IN
            /\ speedLevel' = map(pct, 0, 100, 0, MAX_PWM)
            /\ currentDir' = currentDir
            /\ pc' = entry(currentDir, speedLevel')
            /\ ret' = "loop"
     ELSE IF v = Ord.Q
       THEN /\ speedLevel' = MAX_PWM
            /\ currentDir' = currentDir
            /\ pc' = entry(currentDir, speedLevel')
            /\ ret' = "loop"
     ELSE IF v \in DirLetters
       THEN \* commandMove(v)
            /\ speedLevel' = speedLevel
            /\ IF isOppositeSense(currentDir, v)
                 THEN /\ currentDir' = currentDir
                      /\ pc' = "Stop"
                      /\ ret' = "brake"
                 ELSE /\ currentDir' = v
                      /\ pc' = entry(v, speedLevel)
                      /\ ret' = "loop"
     ELSE \* default: ignored
            /\ UNCHANGED << speedLevel, currentDir, pc, ret >>

\* The channel hands loop() a character when it polls.
LoopRead ==
  /\ UNCHANGED lfVars
  /\ rx = << >>
  /\ \E c \in Chars : Dispatch(c)
  /\ UNCHANGED rx

\* A character arrives in the receive buffer, at any time.
Arrive ==
  /\ UNCHANGED lfVars
  /\ Len(rx) < MaxPending
  /\ \E c \in QChars : rx' = Append(rx, c)
  /\ UNCHANGED << speedLevel, currentPWMA, currentPWMB, currentDir, dutyA,
                  dutyB, pinAIN1, pinAIN2, pinBIN1, pinBIN2, raw, value, pc,
                  ret >>

\* SerialBT.available() /\ SerialBT.read(): the oldest waiting character.
LoopReadQ ==
  /\ UNCHANGED lfVars
  /\ rx # << >>
  /\ Dispatch(Head(rx))
  /\ rx' = Tail(rx)

(***************************************************************************)
(* Stop()                                                                  *)
(***************************************************************************)
StopPWM ==
  /\ UNCHANGED lfVars
  /\ pc = "Stop"
  /\ currentPWMA' = 0
  /\ currentPWMB' = 0
  /\ dutyA' = 0
  /\ dutyB' = 0
  /\ pc' = "stopAIN1"
  /\ UNCHANGED << speedLevel, currentDir, pinAIN1, pinAIN2, pinBIN1, pinBIN2,
                  raw, value, ret, rx >>

StopAIN1 ==
  /\ UNCHANGED lfVars
  /\ pc = "stopAIN1"
  /\ pinAIN1' = LOW
  /\ pc' = "stopAIN2"
  /\ UNCHANGED << speedLevel, currentPWMA, currentPWMB, currentDir, dutyA,
                  dutyB, pinAIN2, pinBIN1, pinBIN2, raw, value, ret, rx >>

StopAIN2 ==
  /\ UNCHANGED lfVars
  /\ pc = "stopAIN2"
  /\ pinAIN2' = LOW
  /\ pc' = "stopBIN1"
  /\ UNCHANGED << speedLevel, currentPWMA, currentPWMB, currentDir, dutyA,
                  dutyB, pinAIN1, pinBIN1, pinBIN2, raw, value, ret, rx >>

StopBIN1 ==
  /\ UNCHANGED lfVars
  /\ pc = "stopBIN1"
  /\ pinBIN1' = LOW
  /\ pc' = "stopBIN2"
  /\ UNCHANGED << speedLevel, currentPWMA, currentPWMB, currentDir, dutyA,
                  dutyB, pinAIN1, pinAIN2, pinBIN2, raw, value, ret, rx >>

\* The last write of Stop(); control returns to the caller.
StopBIN2 ==
  /\ UNCHANGED lfVars
  /\ pc = "stopBIN2"
  /\ pinBIN2' = LOW
  /\ pc' = ret
  /\ ret' = "loop"
  /\ UNCHANGED << speedLevel, currentPWMA, currentPWMB, currentDir, dutyA,
                  dutyB, pinAIN1, pinAIN2, pinBIN1, raw, value, rx >>

\* commandMove after delay(DIR_CHANGE_BRAKE_MS): currentDir = newDir; apply.
BrakeDelay ==
  /\ UNCHANGED lfVars
  /\ pc = "brake"
  /\ currentDir' = value
  /\ pc' = entry(value, speedLevel)
  /\ UNCHANGED << speedLevel, currentPWMA, currentPWMB, dutyA, dutyB,
                  pinAIN1, pinAIN2, pinBIN1, pinBIN2, raw, value, ret, rx >>

(***************************************************************************)
(* setMotors()                                                             *)
(***************************************************************************)
SetAIN1 ==
  /\ UNCHANGED lfVars
  /\ pc = "setAIN1"
  /\ pinAIN1' = args.ain1
  /\ pc' = "setAIN2"
  /\ UNCHANGED << speedLevel, currentPWMA, currentPWMB, currentDir, dutyA,
                  dutyB, pinAIN2, pinBIN1, pinBIN2, raw, value, ret, rx >>

SetAIN2 ==
  /\ UNCHANGED lfVars
  /\ pc = "setAIN2"
  /\ pinAIN2' = args.ain2
  /\ pc' = "setBIN1"
  /\ UNCHANGED << speedLevel, currentPWMA, currentPWMB, currentDir, dutyA,
                  dutyB, pinAIN1, pinBIN1, pinBIN2, raw, value, ret, rx >>

SetBIN1 ==
  /\ UNCHANGED lfVars
  /\ pc = "setBIN1"
  /\ pinBIN1' = args.bin1
  /\ pc' = "setBIN2"
  /\ UNCHANGED << speedLevel, currentPWMA, currentPWMB, currentDir, dutyA,
                  dutyB, pinAIN1, pinAIN2, pinBIN2, raw, value, ret, rx >>

SetBIN2 ==
  /\ UNCHANGED lfVars
  /\ pc = "setBIN2"
  /\ pinBIN2' = args.bin2
  /\ pc' = "ramp"
  /\ UNCHANGED << speedLevel, currentPWMA, currentPWMB, currentDir, dutyA,
                  dutyB, pinAIN1, pinAIN2, pinBIN1, raw, value, ret, rx >>

\* One iteration of the while loop: both updates, both ledcWrite, the delay.
RampStep ==
  /\ UNCHANGED lfVars
  /\ pc = "ramp"
  /\ currentPWMA # targetA \/ currentPWMB # targetB
  /\ currentPWMA' = ramp(currentPWMA, targetA)
  /\ currentPWMB' = ramp(currentPWMB, targetB)
  /\ dutyA' = currentPWMA'
  /\ dutyB' = currentPWMB'
  /\ UNCHANGED << speedLevel, currentDir, pinAIN1, pinAIN2, pinBIN1, pinBIN2,
                  raw, value, pc, ret, rx >>

\* The while condition is false: setMotors returns, and so does loop().
RampDone ==
  /\ UNCHANGED lfVars
  /\ pc = "ramp"
  /\ currentPWMA = targetA
  /\ currentPWMB = targetB
  /\ pc' = "loop"
  /\ UNCHANGED << speedLevel, currentPWMA, currentPWMB, currentDir, dutyA,
                  dutyB, pinAIN1, pinAIN2, pinBIN1, pinBIN2, raw, value, ret,
                  rx >>

(***************************************************************************)
(* Telem_Seguidor.ino : processCommand(cmd)                                *)
(***************************************************************************)
cmdSTARTKeepsLastError ==
  /\ running' = TRUE
  /\ led13' = HIGH
  /\ tx' = << [status |-> "RUNNING"] >>
  /\ UNCHANGED << KP, KD, MAX_SPEED, TELEM_INTERVAL_MS, lastError, motorM1,
                  motorM2 >>

\* "START": l.117-123
cmdSTART ==
  /\ running' = TRUE
  /\ lastError' = 0
  /\ led13' = HIGH
  /\ tx' = << [status |-> "RUNNING"] >>
  /\ UNCHANGED << KP, KD, MAX_SPEED, TELEM_INTERVAL_MS, motorM1, motorM2 >>

cmdSTOPKeepsSpeeds ==
  /\ running' = FALSE
  /\ led13' = LOW
  /\ tx' = << [status |-> "STOPPED"] >>
  /\ UNCHANGED << KP, KD, MAX_SPEED, TELEM_INTERVAL_MS, lastError, motorM1,
                  motorM2 >>

\* "STOP": l.124-130
cmdSTOP ==
  /\ running' = FALSE
  /\ motorM1' = 0
  /\ motorM2' = 0
  /\ led13' = LOW
  /\ tx' = << [status |-> "STOPPED"] >>
  /\ UNCHANGED << KP, KD, MAX_SPEED, TELEM_INTERVAL_MS, lastError >>

\* "PID:kp,kd": l.131-150
cmdPID(cmd) ==
  LET params == substring(cmd, 4)
      comma  == indexOf(params, ",")
  IN  IF comma > 0
        THEN /\ KP' = toFloat(substring2(params, 0, comma))
             /\ KD' = toFloat(substring(params, comma + 1))
             /\ tx' = << [status |-> "PID_OK", kp |-> print4(KP'),
                          kd |-> print4(KD')] >>
             /\ UNCHANGED << MAX_SPEED, TELEM_INTERVAL_MS, running,
                             lastError, motorM1, motorM2, led13 >>
        ELSE /\ tx' = << [status |-> "ERROR", msg |-> "Formato: PID:kp,kd"] >>
             /\ UNCHANGED << KP, KD, MAX_SPEED, TELEM_INTERVAL_MS, running,
                             lastError, motorM1, motorM2, led13 >>

\* "SPEED:n": l.151-165; int spd keeps the low 16 bits of toInt()'s long
cmdSPEED(cmd) ==
  LET spd == wrap16(toInt(substring(cmd, 6)))
  IN  IF spd >= 0 /\ spd <= 400
        THEN /\ MAX_SPEED' = spd
             /\ tx' = << [status |-> "SPEED_OK", max_speed |-> spd] >>
             /\ UNCHANGED << KP, KD, TELEM_INTERVAL_MS, running, lastError,
                             motorM1, motorM2, led13 >>
        ELSE /\ tx' = << [status |-> "ERROR", msg |-> "SPEED debe ser 0-400"] >>
             /\ UNCHANGED << KP, KD, MAX_SPEED, TELEM_INTERVAL_MS, running,
                             lastError, motorM1, motorM2, led13 >>

\* "INTERVAL:ms": l.166-180; unsigned long iv: a negative long converts to a
\* value above 2^31
cmdINTERVAL(cmd) ==
  LET iv == toInt(substring(cmd, 9))
  IN  IF iv >= 0 /\ iv >= 10 /\ iv <= 10000
        THEN /\ TELEM_INTERVAL_MS' = iv
             /\ tx' = << [status |-> "INTERVAL_OK", interval_ms |-> iv] >>
             /\ UNCHANGED << KP, KD, MAX_SPEED, running, lastError,
                             motorM1, motorM2, led13 >>
        ELSE /\ tx' = << [status |-> "ERROR",
                          msg |-> "INTERVAL debe ser 10-10000 ms"] >>
             /\ UNCHANGED << KP, KD, MAX_SPEED, TELEM_INTERVAL_MS, running,
                             lastError, motorM1, motorM2, led13 >>

cmdPARAMSDefaults ==
  /\ tx' = << paramsMsg(frac(25, 100), frac(6, 1), 400, 100) >>
  /\ UNCHANGED << KP, KD, MAX_SPEED, TELEM_INTERVAL_MS, running, lastError,
                  motorM1, motorM2, led13 >>

\* "PARAMS": l.181-184
cmdPARAMS ==
  /\ tx' = << paramsMsg(KP, KD, MAX_SPEED, TELEM_INTERVAL_MS) >>
  /\ UNCHANGED << KP, KD, MAX_SPEED, TELEM_INTERVAL_MS, running, lastError,
                  motorM1, motorM2, led13 >>

cmdUNKNOWNStops(cmd) ==
  /\ tx' = << [status |-> "UNKNOWN", cmd |-> cmd] >>
  /\ running' = FALSE
  /\ UNCHANGED << KP, KD, MAX_SPEED, TELEM_INTERVAL_MS, lastError,
                  motorM1, motorM2, led13 >>

\* anything else: l.185-190
cmdUNKNOWN(cmd) ==
  /\ tx' = << [status |-> "UNKNOWN", cmd |-> cmd] >>
  /\ UNCHANGED << KP, KD, MAX_SPEED, TELEM_INTERVAL_MS, running, lastError,
                  motorM1, motorM2, led13 >>

processCommand(cmd) ==
  IF cmd = "START" THEN cmdSTART
  ELSE IF cmd = "STOP" THEN cmdSTOP
  ELSE IF startsWith(cmd, "PID:") THEN cmdPID(cmd)
  ELSE IF startsWith(cmd, "SPEED:") THEN cmdSPEED(cmd)
  ELSE IF startsWith(cmd, "INTERVAL:") THEN cmdINTERVAL(cmd)
  ELSE IF cmd = "PARAMS" THEN cmdPARAMS
  ELSE cmdUNKNOWN(cmd)

(***************************************************************************)
(* Telem_Seguidor.ino : loop()                                             *)
(***************************************************************************)
\* The while loop reads the characters of a line l of L and the line end
\* after it: cmdBuffer.trim(), and a non-empty cmdBuffer goes to
\* processCommand.
SerialLineOf(L) ==
  /\ UNCHANGED sumoVars
  /\ lfpc = "serial"
  /\ \E l \in L :
       LET cmd == trim(cmdBuffer \o l) IN
       IF Len(cmd) > 0
         THEN cmdBuffer' = cmd /\ lfpc' = "process"
         ELSE cmdBuffer' = "" /\ lfpc' = "serial"
  /\ tx' = << >>
  /\ UNCHANGED << KP, KD, MAX_SPEED, TELEM_INTERVAL_MS, running, lastError,
                  lastPosition, lastM1, lastM2, speedDiff, motorM1, motorM2,
                  led13 >>

SerialLine == SerialLineOf(Lines)

SerialLineCmd == SerialLineOf(CmdLines)

\* processCommand(cmdBuffer); cmdBuffer = "";
CallProcessCommand ==
  /\ UNCHANGED sumoVars
  /\ lfpc = "process"
  /\ processCommand(cmdBuffer)
  /\ cmdBuffer' = ""
  /\ lfpc' = "serial"
  /\ UNCHANGED << lastPosition, lastM1, lastM2, speedDiff >>

\* The while loop reads characters that are not followed by a line end yet.
SerialFragment ==
  /\ UNCHANGED sumoVars
  /\ lfpc = "serial"
  /\ \E f \in Fragments :
       /\ Len(cmdBuffer) + Len(f) <= MaxBuf
       /\ cmdBuffer' = cmdBuffer \o f
  /\ tx' = << >>
  /\ UNCHANGED << KP, KD, MAX_SPEED, TELEM_INTERVAL_MS, running, lastError,
                  lastPosition, lastM1, lastM2, speedDiff, motorM1, motorM2,
                  led13, lfpc >>

\* Serial.available() is 0: the while loop ends.
SerialDone ==
  /\ UNCHANGED sumoVars
  /\ lfpc = "serial"
  /\ lfpc' = "control"
  /\ tx' = << >>
  /\ UNCHANGED << KP, KD, MAX_SPEED, TELEM_INTERVAL_MS, running, lastError,
                  lastPosition, lastM1, lastM2, cmdBuffer, speedDiff,
                  motorM1, motorM2, led13 >>

derivativeOfSum(error, last) == error + last

\* error - lastError
derivative(error, last) == error - last

\* (int)(KP * error) + (int)(KD * (error - lastError)): the results the sum
\* can have.
speedDiffResults(kp, kd, error, last) ==
  UNION { UNION { intResults(p + d) :
                    d \in floatTimesToInt(kd, derivative(error, last)) } :
          p \in floatTimesToInt(kp, error) }

\* if (running) { ... }: one control cycle on the position the sensors give.
ControlCycle ==
  /\ UNCHANGED sumoVars
  /\ lfpc = "control"
  /\ running
  /\ \E position \in Positions :
       LET error == position - 2500 IN
       \E sd \in speedDiffResults(KP, KD, error, lastError) :
       \E up \in intResults(MAX_SPEED + sd), down \in intResults(MAX_SPEED - sd) :
         LET m1Speed == constrain(up, 0, MAX_SPEED)
             m2Speed == constrain(down, 0, MAX_SPEED)
         IN  /\ speedDiff' = sd
             /\ lastError' = error
             /\ motorM1' = m1Speed
             /\ motorM2' = m2Speed
             /\ lastPosition' = position
             /\ lastM1' = m1Speed
             /\ lastM2' = m2Speed
  /\ lfpc' = "telem"
  /\ tx' = << >>
  /\ UNCHANGED << KP, KD, MAX_SPEED, TELEM_INTERVAL_MS, running, cmdBuffer,
                  led13 >>

\* if (running) is false: no control cycle in this pass of loop().
ControlSkip ==
  /\ UNCHANGED sumoVars
  /\ lfpc = "control"
  /\ ~running
  /\ lfpc' = "telem"
  /\ tx' = << >>
  /\ UNCHANGED << KP, KD, MAX_SPEED, TELEM_INTERVAL_MS, running, lastError,
                  lastPosition, lastM1, lastM2, cmdBuffer, speedDiff,
                  motorM1, motorM2, led13 >>

telemetryMsg ==
  [ telem |-> 1, pos |-> lastPosition, err |-> lastPosition - 2500,
    m1 |-> lastM1, m2 |-> lastM2, kp |-> print4(KP), kd |-> print4(KD),
    spd |-> MAX_SPEED, run |-> IF running THEN 1 ELSE 0 ]

\* now - lastTelemTime >= TELEM_INTERVAL_MS: sendTelemetry().  The clock is
\* the environment's: the model leaves open whether the interval has passed.
TelemetrySend ==
  /\ UNCHANGED sumoVars
  /\ lfpc = "telem"
  /\ tx' = << telemetryMsg >>
  /\ lfpc' = "serial"
  /\ UNCHANGED << KP, KD, MAX_SPEED, TELEM_INTERVAL_MS, running, lastError,
                  lastPosition, lastM1, lastM2, cmdBuffer, speedDiff,
                  motorM1, motorM2, led13 >>

\* now - lastTelemTime < TELEM_INTERVAL_MS: loop() returns.
TelemetrySkip ==
  /\ UNCHANGED sumoVars
  /\ lfpc = "telem"
  /\ tx' = << >>
  /\ lfpc' = "serial"
  /\ UNCHANGED << KP, KD, MAX_SPEED, TELEM_INTERVAL_MS, running, lastError,
                  lastPosition, lastM1, lastM2, cmdBuffer, speedDiff,
                  motorM1, motorM2, led13 >>

\* The sumo driver, every character of the alphabet, one per poll.
Next ==
  \/ LoopRead
  \/ StopPWM \/ StopAIN1 \/ StopAIN2 \/ StopBIN1 \/ StopBIN2
  \/ BrakeDelay
  \/ SetAIN1 \/ SetAIN2 \/ SetBIN1 \/ SetBIN2
  \/ RampStep \/ RampDone

Spec == Init /\ [][Next]_vars

\* The sumo driver with characters arriving while it is busy.
NextQ ==
  \/ Arrive
  \/ LoopReadQ
  \/ StopPWM \/ StopAIN1 \/ StopAIN2 \/ StopBIN1 \/ StopBIN2
  \/ BrakeDelay
  \/ SetAIN1 \/ SetAIN2 \/ SetBIN1 \/ SetBIN2
  \/ RampStep \/ RampDone

SpecQ == Init /\ [][NextQ]_vars

\* A step of the command in progress: Stop(), the brake delay, setMotors().
DriverStep ==
  \/ StopPWM \/ StopAIN1 \/ StopAIN2 \/ StopBIN1 \/ StopBIN2
  \/ BrakeDelay
  \/ SetAIN1 \/ SetAIN2 \/ SetBIN1 \/ SetBIN2
  \/ RampStep \/ RampDone

\* The processor keeps executing: a function in progress takes its next
\* step, every delay() ends, and loop() is called again and again.
SpecQFair == SpecQ /\ WF_vars(DriverStep) /\ WF_vars(LoopReadQ)

\* The line follower.
NextLF ==
  \/ SerialLine
  \/ CallProcessCommand
  \/ SerialFragment
  \/ SerialDone
  \/ ControlCycle
  \/ ControlSkip
  \/ TelemetrySend
  \/ TelemetrySkip

SpecLF == Init /\ [][NextLF]_vars

\* The line follower fed with the lines of CmdLines.
NextCmd ==
  \/ SerialLineCmd
  \/ CallProcessCommand
  \/ SerialDone
  \/ ControlCycle
  \/ ControlSkip
  \/ TelemetrySend
  \/ TelemetrySkip

SpecCmd == Init /\ [][NextCmd]_vars

(***************************************************************************)
(* Properties of the sumo driver                                           *)
(***************************************************************************)
\* The families and the mapping as the design document states them.
ClaimForward == {Ord.F, Ord.G, Ord.I}

ClaimBackward == {Ord.B, Ord.H, Ord.J}

ClaimOpposite(c, d) ==
  \/ (c \in ClaimForward /\ d \in ClaimBackward)
  \/ (c \in ClaimBackward /\ d \in ClaimForward)

ClaimDirections ==
  {Ord.F, Ord.B, Ord.S, Ord.L, Ord.R, Ord.G, Ord.I, Ord.H, Ord.J}

ClaimDigits == Ord.zero .. Ord.nine

ClaimUpper(c) == IF c \in Ord.a .. Ord.z THEN c - 32 ELSE c

ClaimMapping(d, s) ==
  CASE d = Ord.F -> << s, s, HIGH, LOW, HIGH, LOW >>
    [] d = Ord.B -> << s, s, LOW, HIGH, LOW, HIGH >>
    [] d = Ord.L -> << (s * 85) \div 100, (s * 85) \div 100, HIGH, LOW, LOW, HIGH >>
    [] d = Ord.R -> << (s * 85) \div 100, (s * 85) \div 100, LOW, HIGH, HIGH, LOW >>
    [] d = Ord.G -> << s \div 2, s, HIGH, LOW, HIGH, LOW >>
    [] d = Ord.I -> << s, s \div 2, HIGH, LOW, HIGH, LOW >>
    [] d = Ord.H -> << s \div 2, s, LOW, HIGH, LOW, HIGH >>
    [] d = Ord.J -> << s, s \div 2, LOW, HIGH, LOW, HIGH >>
    [] d = Ord.S -> << 0, 0, LOW, LOW, LOW, LOW >>

Pins == << pinAIN1, pinAIN2, pinBIN1, pinBIN2 >>

AllZero ==
  /\ currentPWMA = 0 /\ currentPWMB = 0 /\ dutyA = 0 /\ dutyB = 0
  /\ Pins = << LOW, LOW, LOW, LOW >>

DriverState ==
  << currentDir, speedLevel, currentPWMA, currentPWMB, dutyA, dutyB, Pins >>

\* A pin goes from LOW to HIGH in this step.
PinRises ==
  \/ (~pinAIN1 /\ pinAIN1') \/ (~pinAIN2 /\ pinAIN2')
  \/ (~pinBIN1 /\ pinBIN1') \/ (~pinBIN2 /\ pinBIN2')

\* loop() takes a character that starts a command in this step.
ReadsCommand == pc = "loop" /\ pc' # "loop"

\* An iteration of the ramp of setMotors changes an applied PWM in this step.
RampStepTaken ==
  /\ pc = "ramp"
  /\ currentPWMA' # currentPWMA \/ currentPWMB' # currentPWMB

C1_Step ==
  /\ (ReadsCommand /\ value' \in ClaimDirections
        /\ ClaimOpposite(currentDir, value'))
       => /\ pc' = "Stop" /\ ret' = "brake"
          /\ DriverState' = DriverState
  /\ (ReadsCommand /\ value' \in ClaimDirections
        /\ ~ClaimOpposite(currentDir, value'))
       => /\ currentDir' = value' /\ ret' = "loop"
          /\ pc' = IF value' = Ord.S THEN "Stop" ELSE "setAIN1"
  /\ (ret = "brake" \/ pc = "brake")
       => /\ ~PinRises
          /\ currentPWMA' <= currentPWMA /\ currentPWMB' <= currentPWMB
          /\ dutyA' <= dutyA /\ dutyB' <= dutyB
  /\ (ret = "brake" /\ ret' # "brake") => pc' = "brake"
  /\ (pc = "brake" /\ pc' # "brake")
       => currentDir' = value /\ pc' = "setAIN1"
  /\ (currentDir' # currentDir /\ ClaimOpposite(currentDir, currentDir'))
       => pc = "brake" /\ AllZero

\* C1: a command D of the opposite sense of the current direction C
\* (forward family {F,G,I} against backward family {B,H,J}) first runs Stop
\* and holds the brake delay in the all-zero state, and only then takes
\* direction D and writes its pins; every other direction command takes D
\* at once, with no Stop in between.
C1_BrakeBeforeReversal ==
  /\ [](pc = "brake" => AllZero /\ ClaimOpposite(currentDir, value))
  /\ [][C1_Step]_vars

C1_Witness ==
  pc = "brake" /\ currentDir = Ord.G /\ value = Ord.J /\ speedLevel = 127

\* C2: the applied PWM of each motor and the speed scale stay in
\* 0..MAX_PWM in every state, ramp steps included.
C2_PWMInRange ==
  /\ currentPWMA \in 0..MAX_PWM /\ currentPWMB \in 0..MAX_PWM
  /\ dutyA \in 0..MAX_PWM /\ dutyB \in 0..MAX_PWM
  /\ speedLevel \in 0..MAX_PWM

C2_Witness ==
  /\ pc = "ramp" /\ raw = Ord.nine /\ speedLevel = 229
  /\ dutyA = MAX_PWM - RAMP_STEP /\ currentDir = Ord.F

\* C3: the two direction pins of a motor are never both HIGH, also between
\* the single pin writes of setMotors and Stop.
C3_NeverBothHigh == ~(pinAIN1 /\ pinAIN2) /\ ~(pinBIN1 /\ pinBIN2)

C4_StepOK(c, c2, t) ==
  IF c = t THEN c2 = c
  ELSE IF c < t
    THEN c2 = (IF t - c <= RAMP_STEP THEN t ELSE c + RAMP_STEP)
    ELSE c2 = (IF c - t <= RAMP_STEP THEN t ELSE c - RAMP_STEP)

\* C4: every ramp step moves each applied PWM toward its target by exactly
\* RAMP_STEP, or onto the target when less than that is left; it never
\* passes the target, and a motor at its target is left alone.
C4_RampMonotone ==
  [][(pc = "ramp" /\ pc' = "ramp")
       => /\ C4_StepOK(currentPWMA, currentPWMA', targetA)
          /\ C4_StepOK(currentPWMB, currentPWMB', targetB)
          /\ dutyA' = currentPWMA' /\ dutyB' = currentPWMB']_vars

C4_Witness ==
  /\ pc = "ramp" /\ currentPWMB = targetB /\ currentPWMA # targetA
  /\ currentPWMA - targetA < RAMP_STEP /\ currentPWMA > targetA

StopPositions == {"Stop", "stopAIN1", "stopAIN2", "stopBIN1", "stopBIN2"}

C5_Step ==
  /\ (ReadsCommand /\ value' = Ord.S)
       => pc' = "Stop" /\ ret' = "loop" /\ currentDir' = Ord.S
  /\ (value = Ord.S /\ pc # "loop")
       => /\ currentPWMA' \in {currentPWMA, 0} /\ dutyA' \in {dutyA, 0}
          /\ currentPWMB' \in {currentPWMB, 0} /\ dutyB' \in {dutyB, 0}
          /\ (pc' = "loop" => AllZero')
  /\ (value' = Ord.S /\ currentDir = Ord.S /\ AllZero)
       => DriverState' = DriverState

\* C5: S is taken from every direction and speed scale; it sets both
\* applied PWMs to 0 at once and the four pins LOW, with no ramp value and
\* no brake delay on the way, and S in the stopped state changes nothing.
C5_StopImmediate ==
  /\ []((value = Ord.S /\ pc # "loop")
          => pc \in StopPositions /\ ret = "loop" /\ currentDir = Ord.S)
  /\ [][C5_Step]_vars

C5_Witness ==
  /\ pc = "stopAIN1" /\ value = Ord.S /\ raw = Ord.S + 32
  /\ pinAIN2 /\ pinBIN2 /\ speedLevel = 127 /\ dutyA = 0 /\ dutyB = 0

\* An S waits in the receive buffer.
SPending == \E i \in 1..Len(rx) : rx[i] \in {Ord.S, Ord.S + 32}

\* C6 as stated: while an S waits on the channel no ramp step is executed.
C6_NoRampWhileSPending == [][SPending => ~RampStepTaken]_vars

\* C6 amended: once loop() has read an S no ramp step is executed and the
\* next change of an applied PWM sets it to 0; a character that arrives
\* while a command is being processed stays in the buffer until then.
C6_NoRampOnceSRead ==
  /\ [][(value = Ord.S /\ pc # "loop")
          => /\ ~RampStepTaken
             /\ currentPWMA' \in {currentPWMA, 0}
             /\ currentPWMB' \in {currentPWMB, 0}]_vars
  /\ [][(ReadsCommand /\ value' = Ord.S) => pc' = "Stop" /\ ret' = "loop"]_vars
  /\ [][pc # "loop" => Len(rx') >= Len(rx)]_vars

C6_Witness ==
  /\ pc = "stopAIN1" /\ value = Ord.S /\ rx # << >>
  /\ dutyA = 0 /\ pinAIN1 /\ pinBIN1

\* C7: whenever loop() is back at its top, the applied PWMs and the pins
\* are those of the fixed mapping of (current direction, speed scale).
C7_SettledMapping ==
  pc = "loop"
    => /\ << currentPWMA, currentPWMB, pinAIN1, pinAIN2, pinBIN1, pinBIN2 >>
            = ClaimMapping(currentDir, speedLevel)
       /\ dutyA = currentPWMA /\ dutyB = currentPWMB

C7_Witness ==
  /\ pc = "loop" /\ currentDir = Ord.L /\ speedLevel = 229
  /\ currentPWMA = 194 /\ pinAIN1 /\ pinBIN2

ClaimScale(d) == (d * 10 * MAX_PWM) \div 100

ScaleCommand(v) == v \in ClaimDigits \/ v = Ord.Q

C8_Step ==
  /\ (ReadsCommand /\ value' \in ClaimDigits)
       => speedLevel' = ClaimScale(value' - Ord.zero)
  /\ (ReadsCommand /\ value' = Ord.Q) => speedLevel' = MAX_PWM
  /\ (ReadsCommand /\ ScaleCommand(value'))
       => /\ currentDir' = currentDir /\ ret' = "loop"
          /\ pc' = IF currentDir = Ord.S THEN "Stop" ELSE "setAIN1"
          /\ << currentPWMA', currentPWMB', Pins' >>
               = << currentPWMA, currentPWMB, Pins >>
  /\ (ScaleCommand(value) /\ pc # "loop")
       => /\ currentDir' = currentDir /\ speedLevel' = speedLevel
          /\ (pc' = "loop"
                => << currentPWMA', currentPWMB', pinAIN1', pinAIN2',
                      pinBIN1', pinBIN2' >>
                     = ClaimMapping(currentDir, speedLevel))

\* C8: a digit d sets the speed scale to d*10*MAX_PWM/100 and Q sets it to
\* MAX_PWM; the direction stays, no brake Stop or delay is run, and the
\* current direction is applied again, ending on its targets at the new
\* scale.
C8_ScaleCommand ==
  /\ []((ScaleCommand(value) /\ pc # "loop") => pc # "brake" /\ ret = "loop")
  /\ [][C8_Step]_vars

C8_Witness ==
  /\ pc = "ramp" /\ value = Ord.zero + 5 /\ currentDir = Ord.F
  /\ speedLevel = 127 /\ currentPWMA > 127

ClaimRecognized(c) ==
  ClaimUpper(c) \in ClaimDigits \cup {Ord.Q} \cup ClaimDirections

C9_Step ==
  /\ (pc = "loop" /\ ~ClaimRecognized(raw'))
       => DriverState' = DriverState /\ pc' = "loop" /\ ret' = ret
  /\ (pc = "loop" /\ raw' \in Ord.a .. Ord.z /\ ClaimRecognized(raw')
        /\ << raw', value' >> # << raw, value >>)
       => /\ value' = raw' - 32
          /\ pc' # "loop"
          /\ value' = Ord.Q => speedLevel' = MAX_PWM
          /\ value' \in ClaimDirections
               => IF ClaimOpposite(currentDir, value')
                    THEN pc' = "Stop" /\ ret' = "brake"
                    ELSE currentDir' = value'

\* C9: a character that is no digit, Q or direction letter after
\* upper-casing changes nothing of the driver and starts nothing; a
\* lower-case command letter starts the command of its upper-case form.
C9_UnrecognizedIgnored == [][C9_Step]_vars

C9_Witness ==
  /\ pc = "loop" /\ raw = Ord.z - 2 /\ value = Ord.z - 34
  /\ currentDir = Ord.F /\ currentPWMA = MAX_PWM

(***************************************************************************)
(* Properties of the line follower                                         *)
(***************************************************************************)
ClaimTrunc(a, b) == IF a >= 0 THEN a \div b ELSE -((-a) \div b)

ClaimFits(x) == x >= -(2^15) /\ x <= 2^15 - 1

\* A control cycle runs in this step.
ControlStep == lfpc = "control" /\ lfpc' = "telem" /\ running

\* The terms of the cycle of this step and their sum all fit an int.
C10_InRange ==
  LET e == lastPosition' - 2500
      p == ClaimTrunc(KP.n * e, KP.d)
      d == ClaimTrunc(KD.n * (e - lastError), KD.d)
  IN  ClaimFits(p) /\ ClaimFits(d) /\ ClaimFits(p + d)

\* C10 as stated: speedDiff is kp*error + kd*(error - lastError), converted
\* to an integer.
C10_SumThenConvert ==
  [][(ControlStep /\ C10_InRange)
       => LET e == lastPosition' - 2500
          IN  speedDiff' =
                ClaimTrunc(KP.n * e * KD.d + KD.n * (e - lastError) * KP.d,
                           KP.d * KD.d)]_vars

C10_Example(last, position, diff, m1, m2) ==
  (/\ ControlStep /\ KP = frac(1, 4) /\ KD = frac(6, 1) /\ MAX_SPEED = 400
   /\ lastError = last /\ lastPosition' = position)
    => speedDiff' = diff /\ motorM1' = m1 /\ motorM2' = m2

\* C10 amended: speedDiff is (int)(kp*error) + (int)(kd*(error - lastError)),
\* each product truncated toward zero on its own, whenever the products and
\* their sum fit an int; lastError becomes error; the example run gives
\* 0, 0, 3125, -6125 and (400,400), (400,400), (400,0), (0,400).
C10_ConvertThenSum ==
  [][ControlStep
       => LET e == lastPosition' - 2500
          IN  /\ lastError' = e
              /\ C10_InRange
                   => speedDiff' = ClaimTrunc(KP.n * e, KP.d)
                                    + ClaimTrunc(KD.n * (e - lastError), KD.d)
              /\ C10_Example(0, 2500, 0, 400, 400)
              /\ C10_Example(0, 3000, 3125, 400, 0)
              /\ C10_Example(500, 2000, -6125, 0, 400)]_vars

C10_Witness ==
  /\ lfpc = "telem" /\ running /\ KP = frac(1, 4) /\ KD = frac(6, 1)
  /\ MAX_SPEED = 400 /\ lastPosition = 2000 /\ lastError = -500
  /\ speedDiff = -6125 /\ motorM1 = 0 /\ motorM2 = 400

(***************************************************************************)
(* C11: clamped wheel speeds                                               *)
(***************************************************************************)
ClaimClamp(x, lo, hi) == IF x < lo THEN lo ELSE IF x > hi THEN hi ELSE x

\* C11: in every control cycle both wheel speeds applied lie in
\* 0..maxSpeed, for every position, lastError, accepted maxSpeed and gain
\* pair; the left speed is maxSpeed + speedDiff and the right speed is
\* maxSpeed - speedDiff clamped into 0..maxSpeed, the sum and the difference
\* taken in int arithmetic.
C11_WheelSpeedsClamped ==
  [][ControlStep
       => /\ MAX_SPEED \in 0..400
          /\ motorM1' \in 0..MAX_SPEED
          /\ motorM2' \in 0..MAX_SPEED
          /\ ClaimFits(MAX_SPEED + speedDiff')
               => motorM1' = ClaimClamp(MAX_SPEED + speedDiff', 0, MAX_SPEED)
          /\ ClaimFits(MAX_SPEED - speedDiff')
               => motorM2' = ClaimClamp(MAX_SPEED - speedDiff', 0, MAX_SPEED)]_vars

\* A cycle under an accepted maxSpeed of 300 whose correction drives the
\* left wheel to the lower clamp and the right wheel to the upper one.
C11_Witness ==
  /\ lfpc = "telem" /\ running /\ MAX_SPEED = 300 /\ speedDiff < -300
  /\ motorM1 = 0 /\ motorM2 = 300

(***************************************************************************)
(* C12: STOP                                                               *)
(***************************************************************************)
\* processCommand(c) runs in this step.
Processes(c) == lfpc = "process" /\ lfpc' = "serial" /\ cmdBuffer = c

ControlState ==
  << KP, KD, MAX_SPEED, TELEM_INTERVAL_MS, running, lastError, lastPosition,
     lastM1, lastM2, speedDiff, motorM1, motorM2, led13 >>

C12_StopStep ==
  Processes("STOP")
    => /\ running' = FALSE
       /\ motorM1' = 0 /\ motorM2' = 0
       /\ tx' = << [status |-> "STOPPED"] >>
       /\ ~running => ControlState' = ControlState

\* C12: STOP always yields running = false, both applied wheel speeds 0 and
\* exactly one STOPPED acknowledgement; a STOP received when already stopped
\* (a second consecutive STOP) leaves the whole control state as it is and
\* is acknowledged again; in every state running = false implies that the
\* speeds last applied to the motors are (0, 0).
C12_StopIdempotent ==
  /\ [][C12_StopStep]_vars
  /\ [](~running => motorM1 = 0 /\ motorM2 = 0)

\* A STOP has just been acknowledged after a cycle that drove both wheels.
C12_Witness ==
  /\ lfpc = "serial" /\ tx = << [status |-> "STOPPED"] >> /\ ~running
  /\ lastM1 = 400 /\ lastM2 = 400 /\ motorM1 = 0 /\ motorM2 = 0

(***************************************************************************)
(* C13: START                                                              *)
(***************************************************************************)
C13_StartStep ==
  Processes("START")
    => /\ running' = TRUE
       /\ lastError' = 0
       /\ tx' = << [status |-> "RUNNING"] >>
       /\ UNCHANGED << KP, KD, MAX_SPEED, TELEM_INTERVAL_MS >>

\* Between a START and the next control cycle nothing writes lastError.
C13_LastErrorKept ==
  lastError' # lastError => ControlStep \/ Processes("START")

\* A cycle that finds lastError = 0 takes the whole error as its derivative.
C13_FirstCycle ==
  (ControlStep /\ lastError = 0)
    => LET e == lastPosition' - 2500
           p == ClaimTrunc(KP.n * e, KP.d)
           d == ClaimTrunc(KD.n * e, KD.d)
       IN  (ClaimFits(p) /\ ClaimFits(d) /\ ClaimFits(p + d))
             => speedDiff' = p + d

\* C13: START sets running = true, resets lastError to 0 and emits one
\* RUNNING status, leaving kp, kd, maxSpeed and the telemetry interval as
\* they are; lastError stays 0 until the next control cycle, so the first
\* cycle after a START computes its derivative term against lastError = 0.
C13_StartResets ==
  [][C13_StartStep /\ C13_LastErrorKept /\ C13_FirstCycle]_vars

\* A START has just been acknowledged on a controller that had seen the
\* error 500 in its last cycle.
C13_Witness ==
  /\ lfpc = "serial" /\ tx = << [status |-> "RUNNING"] >> /\ running
  /\ lastPosition = 3000 /\ lastError = 0

(***************************************************************************)
(* C14: range checks of SPEED: and INTERVAL:                               *)
(***************************************************************************)
\* The integer each SPEED: line carries.
ClaimSpeedArg ==
  [ c \in { "SPEED:0", "SPEED:400", "SPEED:401", "SPEED:-1", "SPEED:65536" }
      |-> CASE c = "SPEED:0" -> 0
            [] c = "SPEED:400" -> 400
            [] c = "SPEED:401" -> 401
            [] c = "SPEED:-1" -> -1
            [] c = "SPEED:65536" -> 65536 ]

\* The integer each INTERVAL: line carries.
ClaimIntervalArg ==
  [ c \in { "INTERVAL:10", "INTERVAL:9", "INTERVAL:10000", "INTERVAL:10001",
            "INTERVAL:-5" }
      |-> CASE c = "INTERVAL:10" -> 10
            [] c = "INTERVAL:9" -> 9
            [] c = "INTERVAL:10000" -> 10000
            [] c = "INTERVAL:10001" -> 10001
            [] c = "INTERVAL:-5" -> -5 ]

ClaimIsError == Len(tx') = 1 /\ tx'[1].status = "ERROR"

C14_SpeedStep ==
  \A c \in DOMAIN ClaimSpeedArg :
    Processes(c)
      => LET n == ClaimSpeedArg[c]
         IN  IF 0 <= n /\ n <= 400
               THEN /\ MAX_SPEED' = n
                    /\ tx' = << [status |-> "SPEED_OK", max_speed |-> n] >>
               ELSE MAX_SPEED' = MAX_SPEED /\ ClaimIsError

C14_IntervalStep ==
  \A c \in DOMAIN ClaimIntervalArg :
    Processes(c)
      => LET m == ClaimIntervalArg[c]
         IN  IF 10 <= m /\ m <= 10000
               THEN /\ TELEM_INTERVAL_MS' = m
                    /\ tx' = << [status |-> "INTERVAL_OK",
                                 interval_ms |-> m] >>
               ELSE TELEM_INTERVAL_MS' = TELEM_INTERVAL_MS /\ ClaimIsError

\* C14: for every integer n, SPEED:n is accepted (maxSpeed becomes n,
\* SPEED_OK emitted) if and only if 0 <= n <= 400, and for every integer m,
\* INTERVAL:m is accepted (the interval becomes m, INTERVAL_OK emitted) if
\* and only if 10 <= m <= 10000; every other value emits a range ERROR and
\* leaves the parameter unchanged.
C14_RangeChecked == [][C14_SpeedStep /\ C14_IntervalStep]_vars

\* The interval half of C14 alone.
C14_IntervalOnly == [][C14_IntervalStep]_vars

(***************************************************************************)
(* C15: unparseable numeric fields                                         *)
(***************************************************************************)
\* Lines whose numeric field is no number.
ClaimUnparseable == { "PID:a,b", "SPEED:abc", "SPEED:", "INTERVAL:abc" }

C15_Step(lines) ==
  \A c \in lines :
    Processes(c)
      => /\ ClaimIsError
         /\ UNCHANGED << KP, KD, MAX_SPEED, TELEM_INTERVAL_MS, running,
                         lastError >>

\* C15: a PID:, SPEED: or INTERVAL: command whose numeric field is
\* unparseable (non-numeric or empty) is reported with a structured ERROR
\* message and leaves kp, kd, maxSpeed, the telemetry interval, running and
\* lastError unchanged.
C15_UnparseableRejected == [][C15_Step(ClaimUnparseable)]_vars

\* C15 for INTERVAL: alone, where the 0 that toInt() returns is out of range.
C15_IntervalOnly == [][C15_Step({ "INTERVAL:abc" })]_vars

(***************************************************************************)
(* C16: commands answered with ERROR or UNKNOWN                            *)
(***************************************************************************)
\* Lines the controller answers with ERROR or UNKNOWN.
ClaimRejected ==
  { "PID:1", "SPEED:401", "SPEED:-1", "INTERVAL:9", "INTERVAL:10001",
    "INTERVAL:-5", "INTERVAL:abc", "FOO" }

ClaimIsRejection ==
  Len(tx') = 1 /\ tx'[1] \in [status : {"ERROR"}, msg : STRING]
                              \cup [status : {"UNKNOWN"}, cmd : STRING]

C16_Step ==
  /\ \A c \in ClaimRejected : Processes(c) => ClaimIsRejection
  /\ (lfpc = "process" /\ lfpc' = "serial" /\ ClaimIsRejection)
       => /\ UNCHANGED << running, KP, KD, MAX_SPEED, TELEM_INTERVAL_MS,
                          lastError, motorM1, motorM2 >>
          /\ cmdBuffer' = ""
          /\ lfpc' = "serial"

\* In each place of loop() a next step exists: reading, a control cycle or
\* its skipping, telemetry or its skipping, or processCommand on a line that
\* is not empty, which every line matches in its last else branch.
C16_LoopGoesOn ==
  \/ lfpc \in {"serial", "control", "telem"}
  \/ lfpc = "process" /\ cmdBuffer # ""

\* C16: every command answered with an ERROR or UNKNOWN status (PID: without
\* a comma, out-of-range SPEED:/INTERVAL:, an unrecognized token) leaves
\* running, kp, kd, maxSpeed, the telemetry interval, lastError and the
\* applied wheel speeds unchanged, and the loop goes on: it is back at
\* reading the channel with an empty line buffer, and no state halts it.
C16_RejectedChangesNothing ==
  /\ [][C16_Step]_vars
  /\ []C16_LoopGoesOn

\* An out-of-range SPEED: has just been answered while the robot is driving.
C16_Witness ==
  /\ lfpc = "serial" /\ running /\ motorM1 = 400 /\ motorM2 = 0
  /\ lastError = 500 /\ MAX_SPEED = 400
  /\ tx = << [status |-> "ERROR", msg |-> "SPEED debe ser 0-400"] >>

(***************************************************************************)
(* C17: parameter round trip                                               *)
(***************************************************************************)
\* A number with at most 4 decimals, as the count of 1/10000 a report shows.
ClaimReport(n, d) == (n * 10000) \div d

\* PARAMS reports the four parameters as they are and changes nothing.
C17_ParamsStep ==
  Processes("PARAMS")
    => /\ tx' = << [ params |-> 1,
                     kp |-> ClaimReport(KP.n, KP.d),
                     kd |-> ClaimReport(KD.n, KD.d),
                     max_speed |-> MAX_SPEED,
                     interval_ms |-> TELEM_INTERVAL_MS ] >>
       /\ ControlState' = ControlState

\* The accepted commands store the values they carry.
C17_AcceptStep ==
  /\ Processes("PID:0.3,5.5") => KP' = [n |-> 3, d |-> 10] /\ KD' = [n |-> 11, d |-> 2]
  /\ Processes("SPEED:0") => MAX_SPEED' = 0
  /\ Processes("SPEED:400") => MAX_SPEED' = 400
  /\ Processes("INTERVAL:10") => TELEM_INTERVAL_MS' = 10
  /\ Processes("INTERVAL:10000") => TELEM_INTERVAL_MS' = 10000

\* A parameter changes only in the step of a command that is acknowledged
\* with PID_OK, SPEED_OK or INTERVAL_OK and names the new value.
C17_OnlyAccepted ==
  /\ (KP' # KP \/ KD' # KD)
       => /\ lfpc = "process" /\ startsWith(cmdBuffer, "PID:")
          /\ tx' = << [status |-> "PID_OK", kp |-> ClaimReport(KP'.n, KP'.d),
                       kd |-> ClaimReport(KD'.n, KD'.d)] >>
  /\ MAX_SPEED' # MAX_SPEED
       => /\ lfpc = "process" /\ startsWith(cmdBuffer, "SPEED:")
          /\ tx' = << [status |-> "SPEED_OK", max_speed |-> MAX_SPEED'] >>
  /\ TELEM_INTERVAL_MS' # TELEM_INTERVAL_MS
       => /\ lfpc = "process" /\ startsWith(cmdBuffer, "INTERVAL:")
          /\ tx' = << [status |-> "INTERVAL_OK",
                       interval_ms |-> TELEM_INTERVAL_MS'] >>

\* C17: PARAMS reports the kp and kd of the last accepted PID: command
\* (0.3000 and 5.5000 after PID:0.3,5.5) and the maxSpeed and interval of
\* the last accepted SPEED: and INTERVAL: commands, or the defaults 0.25,
\* 6.0, 400, 100 where none was accepted; PARAMS itself changes no state.
C17_ParamsRoundTrip ==
  /\ KP = [n |-> 1, d |-> 4] /\ KD = [n |-> 6, d |-> 1]
       /\ MAX_SPEED = 400 /\ TELEM_INTERVAL_MS = 100
  /\ [][C17_ParamsStep /\ C17_AcceptStep /\ C17_OnlyAccepted]_vars

\* PARAMS has just reported the gains of PID:0.3,5.5 and an interval of 10.
C17_Witness ==
  /\ lfpc = "serial" /\ KP = [n |-> 3, d |-> 10] /\ KD = [n |-> 11, d |-> 2]
  /\ tx = << [ params |-> 1, kp |-> 3000, kd |-> 55000,
               max_speed |-> MAX_SPEED, interval_ms |-> 10 ] >>

(***************************************************************************)
(* C18: setMotors terminates; commands wait for it                         *)
(***************************************************************************)
ClaimAbs(x) == IF x < 0 THEN -x ELSE x

\* How far the applied PWMs are from the clamped targets of the call.
ClaimDistance ==
  ClaimAbs(currentPWMA - ClaimClamp(args.targetA, 0, MAX_PWM))
    + ClaimAbs(currentPWMB - ClaimClamp(args.targetB, 0, MAX_PWM))

\* Every iteration of the ramp brings the applied PWMs closer to the targets
\* and setMotors returns only with both at their clamped targets.
C18_RampStep ==
  /\ (pc = "ramp" /\ pc' = "ramp" /\ rx' = rx)
       => ClaimDistance' < ClaimDistance
  /\ (pc = "ramp" /\ pc' = "loop")
       => /\ currentPWMA' = ClaimClamp(args.targetA, 0, MAX_PWM)
          /\ currentPWMB' = ClaimClamp(args.targetB, 0, MAX_PWM)

\* While a command is in progress no character leaves the channel and the
\* command goes on in its own order; characters leave the channel one per
\* pass of loop(), the oldest first, and arrive behind the waiting ones.
C18_ChannelStep ==
  /\ pc # "loop" => Len(rx') >= Len(rx) /\ raw' = raw /\ value' = value
  /\ pc = "brake" => pc' \in {"brake", "Stop", "setAIN1"}
  /\ pc = "ramp" => pc' \in {"ramp", "loop"}
  /\ Len(rx') < Len(rx)
       => pc = "loop" /\ rx' = Tail(rx) /\ raw' = Head(rx)
  /\ Len(rx') > Len(rx)
       => Len(rx') = Len(rx) + 1 /\ SubSeq(rx', 1, Len(rx)) = rx

\* C18: every call of setMotors terminates and on return each applied PWM
\* equals its target clamped into 0..MAX_PWM; a ramp or brake delay that has
\* started runs to completion and no character is consumed until it has
\* finished; pending characters are processed afterwards, one per pass of
\* loop(), in arrival order.
C18_RampRunsToCompletion ==
  /\ [][C18_RampStep /\ C18_ChannelStep]_vars
  /\ (pc # "loop") ~> (pc = "loop")
  /\ (Len(rx) = MaxPending) ~> (Len(rx) < MaxPending)

\* A ramp with unequal targets is under way while two characters wait.
C18_Witness ==
  /\ pc = "ramp" /\ Len(rx) = MaxPending /\ currentPWMA # currentPWMB
  /\ currentPWMA # targetA /\ currentPWMA > 0

(***************************************************************************)
(* C19: polarity reversal only at PWM 0                                    *)
(***************************************************************************)
\* The polarity a pin pair selects.
ClaimPolarity(in1, in2) ==
  IF in1 = HIGH /\ in2 = LOW THEN "forward"
  ELSE IF in1 = LOW /\ in2 = HIGH THEN "backward"
  ELSE "none"

\* The pins (in1, in2) of a motor that runs at PWM duty come to select a
\* polarity they did not select before this step.
ClaimReversed(in1, in2, in1n, in2n, duty) ==
  /\ ClaimPolarity(in1n, in2n) # "none"
  /\ ClaimPolarity(in1n, in2n) # ClaimPolarity(in1, in2)
  /\ duty # 0

\* C19: the direction pins of a motor never come to select forward or
\* backward anew while that motor's applied PWM is nonzero: every polarity
\* reversal of a motor happens at applied PWM 0 (F->L, L->B, L->R included).
C19_ReversalAtZeroPWM ==
  [][/\ ~ClaimReversed(pinAIN1, pinAIN2, pinAIN1', pinAIN2', dutyA)
     /\ ~ClaimReversed(pinBIN1, pinBIN2, pinBIN1', pinBIN2', dutyB)]_vars

(***************************************************************************)
(* C20: telemetry reports the applied wheel speeds                         *)
(***************************************************************************)
\* sendTelemetry() prints its message in this step.
ClaimTelemetrySent ==
  lfpc = "telem" /\ lfpc' = "serial" /\ Len(tx') = 1

ClaimRunOK == tx'[1].run = (IF running THEN 1 ELSE 0)

\* C20: the m1 and m2 a telemetry message reports equal the wheel speeds
\* most recently applied to the motor driver and its run field equals the
\* running flag; telemetry emitted after a STOP reports m1 = 0 and m2 = 0.
C20_TelemetryMatchesMotors ==
  [][ClaimTelemetrySent
       => /\ tx'[1].m1 = motorM1
          /\ tx'[1].m2 = motorM2
          /\ ClaimRunOK]_vars

\* The run field alone, and m1, m2 while the controller is running.
C20_RunningOnly ==
  [][ClaimTelemetrySent
       => /\ ClaimRunOK
          /\ running => tx'[1].m1 = motorM1 /\ tx'[1].m2 = motorM2]_vars

====
